---- MODULE Spec2Model ----
(***************************************************************************)
(* A model of the two PDF annotation extractors:                           *)
(*   skills/pdf-highlighted-lines/scripts/extract_highlighted_lines.py     *)
(*   skills/pdf-extract-comments/scripts/extract_comments.py               *)
(*                                                                         *)
(* Coordinates are integers (PDF points).  A comparison against a          *)
(* fractional multiple of a length is scaled to integers, e.g.             *)
(*   x_gap <= max(6.0, h * 0.6)   is   10 * x_gap <= Max(60, 6 * h).       *)
(* Colour channels are tenths (1.0 is 10), and distances are compared by   *)
(* their squares (sqrt is monotone).  A rectangle is the tuple             *)
(* <<x0, y0, x1, y1>>; Python's rect[0..3] is rect[1..4] here.  A text is  *)
(* the sequence of its words, so " ".join is concatenation.                *)
(***************************************************************************)
EXTENDS Integers, Sequences, FiniteSets

None == "None"

Max(a, b) == IF a >= b THEN a ELSE b
Min(a, b) == IF a <= b THEN a ELSE b
Abs(a) == IF a >= 0 THEN a ELSE -a

(***************************************************************************)
(* Colour classification                                                   *)
(***************************************************************************)

\* main's color_table, in declaration (dict insertion) order.
color_table ==
  << [name |-> "yellow",     rgb |-> <<10, 10, 0>>],
     [name |-> "green",      rgb |-> <<0, 10, 0>>],
     [name |-> "blue",       rgb |-> <<0, 10, 10>>],
     [name |-> "light-blue", rgb |-> <<6, 8, 10>>],
     [name |-> "red",        rgb |-> <<10, 0, 0>>],
     [name |-> "orange",     rgb |-> <<10, 6, 0>>],
     [name |-> "purple",     rgb |-> <<6, 2, 8>>],
     [name |-> "pink",       rgb |-> <<10, 6, 8>>] >>

\* dist(c1, c2) squared: sum((a - b) ** 2 for a, b in zip(c1, c2)).
dist(c1, c2) ==
  (c1[1] - c2[1]) * (c1[1] - c2[1]) + (c1[2] - c2[2]) * (c1[2] - c2[2])
    + (c1[3] - c2[3]) * (c1[3] - c2[3])

\* Python's min(iterable, key): the running minimum is replaced only by a
\* strictly smaller key, so the first minimal element wins.
RECURSIVE min_by_dist(_, _, _, _)
min_by_dist(c, table, i, best) ==
  IF i > Len(table) THEN best
  ELSE min_by_dist(c, table, i + 1,
         IF dist(c, table[i].rgb) < dist(c, table[best].rgb) THEN i ELSE best)

\* A plausible slip: ">=" keeps the last minimal element instead of the first.
RECURSIVE min_by_dist_last(_, _, _, _)
min_by_dist_last(c, table, i, best) ==
  IF i > Len(table) THEN best
  ELSE min_by_dist_last(c, table, i + 1,
         IF dist(c, table[i].rgb) <= dist(c, table[best].rgb) THEN i ELSE best)

classify_nearest_color_last(c, table) ==
  IF c = <<>> THEN None ELSE table[min_by_dist_last(c, table, 2, 1)].name

\* classify_nearest_color(c, color_table); an absent colour (None) is <<>>.
classify_nearest_color(c, table) ==
  IF c = <<>> THEN None ELSE table[min_by_dist(c, table, 2, 1)].name

(***************************************************************************)
(* Rectangles and lines                                                    *)
(***************************************************************************)

\* intersects(b1, b2): closed-interval overlap on both axes.
intersects(b1, b2) ==
  ~(b1[3] < b2[1] \/ b2[3] < b1[1] \/ b1[4] < b2[2] \/ b2[4] < b1[2])

\* A Line as extract_lines builds it: {"text", "lines": [{"text", "bbox"}]};
\* the flags are added by main's coverage step.
bbox_of(line) == line.lines[1].bbox

\* line.get("has_unhighlighted_after"): None (falsy) while the key is absent.
\* A line's dict keys are its "assigned" set; a field outside it holds a
\* placeholder that is never read.
get_has_unhighlighted_after(line) ==
  "has_unhighlighted_after" \in line.assigned /\ line.has_unhighlighted_after

\* A faulty variant of the band test: only lines whose top is strictly between the
\* two tops count.
has_unhighlighted_after_between_strict(lines, upper_y, lower_y) ==
  \E i \in 1..Len(lines) :
    /\ bbox_of(lines[i])[2] > upper_y
    /\ bbox_of(lines[i])[2] < lower_y
    /\ get_has_unhighlighted_after(lines[i])

\* has_unhighlighted_after_between: some line whose vertical extent meets the
\* closed band [upper_y, lower_y] has has_unhighlighted_after set.
has_unhighlighted_after_between(lines, upper_y, lower_y) ==
  \E i \in 1..Len(lines) :
    /\ ~(bbox_of(lines[i])[2] > lower_y \/ bbox_of(lines[i])[4] < upper_y)
    /\ get_has_unhighlighted_after(lines[i])

\* A faulty variant of should_merge_rects: the same-line branch also consults the
\* page's lines, as the cross-line branch does.
should_merge_rects_lines(prev_rect, next_rect, lines) ==
  LET prev_height == Max(1, prev_rect[4] - prev_rect[2])
      y_gap == next_rect[2] - prev_rect[4]
      vertical_overlap == next_rect[2] <= prev_rect[4] /\ next_rect[4] >= prev_rect[2]
      same_line == vertical_overlap \/ 2 * Abs(next_rect[2] - prev_rect[2]) <= prev_height
      x_gap == next_rect[1] - prev_rect[3]
  IN  IF same_line
      THEN /\ 10 * x_gap <= Max(60, 6 * prev_height)
           /\ ~has_unhighlighted_after_between(lines, prev_rect[2], next_rect[2])
      ELSE IF 10 * y_gap > Max(40, 8 * prev_height) THEN FALSE
      ELSE IF has_unhighlighted_after_between(lines, prev_rect[2], next_rect[2]) THEN FALSE
      ELSE TRUE

should_merge_rects(prev_rect, next_rect, lines) ==
  LET prev_height == Max(1, prev_rect[4] - prev_rect[2])
      y_gap == next_rect[2] - prev_rect[4]
      vertical_overlap == next_rect[2] <= prev_rect[4] /\ next_rect[4] >= prev_rect[2]
      same_line == vertical_overlap \/ 2 * Abs(next_rect[2] - prev_rect[2]) <= prev_height
      x_gap == next_rect[1] - prev_rect[3]
  IN  IF same_line THEN 10 * x_gap <= Max(60, 6 * prev_height)
      ELSE IF 10 * y_gap > Max(40, 8 * prev_height) THEN FALSE
      ELSE IF has_unhighlighted_after_between(lines, prev_rect[2], next_rect[2]) THEN FALSE
      ELSE TRUE


\* Python's sort by the key (rect[1], rect[0]): (top, left), ascending.
key_le(a, b) == a[2] < b[2] \/ (a[2] = b[2] /\ a[1] <= b[1])

\* One insertion of a stable insertion sort: x goes after every element whose
\* key is not greater (list.sort is stable).
RECURSIVE insert_by_key(_, _, _)
insert_by_key(sorted, x, i) ==
  IF i > Len(sorted) THEN Append(sorted, x)
  ELSE IF key_le(sorted[i].key, x.key) THEN insert_by_key(sorted, x, i + 1)
  ELSE SubSeq(sorted, 1, i - 1) \o <<x>> \o SubSeq(sorted, i, Len(sorted))

RECURSIVE sort_keyed(_, _, _)
sort_keyed(items, i, acc) ==
  IF i > Len(items) THEN acc
  ELSE sort_keyed(items, i + 1, insert_by_key(acc, items[i], 1))

\* page_highlights.sort(key=lambda h: (h["rect"][1], h["rect"][0]))
sort_highlights(hs) ==
  LET keyed == [i \in 1..Len(hs) |-> [key |-> hs[i].rect, val |-> hs[i]]]
      s == sort_keyed(keyed, 1, <<>>)
  IN  [i \in 1..Len(s) |-> s[i].val]

\* " ".join(list of texts): the concatenation of the word sequences.
RECURSIVE join(_)
join(texts) == IF texts = <<>> THEN <<>> ELSE Head(texts) \o join(Tail(texts))

\* extract_lines(page): text blocks only, span texts joined and stripped,
\* empty lines dropped, one record per layout line, sorted by (top, left).
extract_lines(page) ==
  LET raw == page.text_lines
      keep == SelectSeq(raw, LAMBDA l : l.type = 0 /\ l.text # <<>>)
      keyed == [i \in 1..Len(keep) |->
                 [key |-> keep[i].bbox,
                  val |-> [text |-> keep[i].text,
                           lines |-> <<[text |-> keep[i].text, bbox |-> keep[i].bbox]>>,
                           assigned |-> {"text", "lines"},
                           highlighted_any |-> FALSE,
                           has_unhighlighted_gap |-> FALSE,
                           has_unhighlighted_after |-> FALSE,
                           highlighted_max_x |-> <<>>]]]
      s == sort_keyed(keyed, 1, <<>>)
  IN  [i \in 1..Len(s) |-> s[i].val]

\* The toolkit's page.get_text("text", clip=rect), at the granularity of
\* layout lines: the texts of the text lines that overlap rect with positive
\* area, in layout order.
clip_text(page, rect) ==
  LET raw == page.text_lines
      hit == SelectSeq(raw, LAMBDA l :
               /\ l.type = 0 /\ l.text # <<>>
               /\ Min(l.bbox[3], rect[3]) > Max(l.bbox[1], rect[1])
               /\ Min(l.bbox[4], rect[4]) > Max(l.bbox[2], rect[2]))
  IN  [i \in 1..Len(hit) |-> hit[i].text]

\* extract_highlight_text(page, rect): the non-empty lines of the clipped text.
extract_highlight_text(page, rect) == clip_text(page, rect)


(***************************************************************************)
(* Per-line coverage (main, the loop over lines)                           *)
(***************************************************************************)

\* The clipped horizontal overlaps (x0, x1) of the highlights that intersect
\* line_rect, in page_highlights order, kept only when x1 > x0.
RECURSIVE line_intervals(_, _, _)
line_intervals(line_rect, hs, i) ==
  IF i > Len(hs) THEN <<>>
  ELSE LET h == hs[i]
           x0 == Max(line_rect[1], h.rect[1])
           x1 == Min(line_rect[3], h.rect[3])
           rest == line_intervals(line_rect, hs, i + 1)
       IN  IF intersects(line_rect, h.rect) /\ x1 > x0 THEN <<(<<x0, x1>>)>> \o rest
           ELSE rest

\* intervals.sort(): tuples in lexicographic order.
RECURSIVE insert_interval(_, _, _)
insert_interval(sorted, x, i) ==
  IF i > Len(sorted) THEN Append(sorted, x)
  ELSE IF sorted[i][1] < x[1] \/ (sorted[i][1] = x[1] /\ sorted[i][2] <= x[2])
       THEN insert_interval(sorted, x, i + 1)
  ELSE SubSeq(sorted, 1, i - 1) \o <<x>> \o SubSeq(sorted, i, Len(sorted))

RECURSIVE sort_intervals(_, _, _)
sort_intervals(ivs, i, acc) ==
  IF i > Len(ivs) THEN acc
  ELSE sort_intervals(ivs, i + 1, insert_interval(acc, ivs[i], 1))

\* The merge loop: an interval that starts after the last merged end opens a
\* new run, any other one (overlapping or touching) extends the last run.
RECURSIVE merge_intervals(_, _, _)
merge_intervals(ivs, i, merged) ==
  IF i > Len(ivs) THEN merged
  ELSE LET n == Len(merged) IN
       IF merged = <<>> \/ ivs[i][1] > merged[n][2]
       THEN merge_intervals(ivs, i + 1, Append(merged, ivs[i]))
       ELSE merge_intervals(ivs, i + 1,
              [merged EXCEPT ![n] = <<merged[n][1], Max(merged[n][2], ivs[i][2])>>])

RECURSIVE sum_lengths(_)
sum_lengths(merged) ==
  IF merged = <<>> THEN 0
  ELSE (Head(merged)[2] - Head(merged)[1]) + sum_lengths(Tail(merged))

RECURSIVE max_end(_)
max_end(merged) ==
  IF Len(merged) = 1 THEN merged[1][2]
  ELSE Max(merged[1][2], max_end(Tail(merged)))

\* The body of "for line in lines": the line with its coverage fields set, or
\* with only highlighted_any set and raised = TRUE when
\* max(end for _, end in merged) is taken of an empty sequence (ValueError).
cover_line(line, hs) ==
  LET line_rect == bbox_of(line)
      highlighted == \E i \in 1..Len(hs) : intersects(line_rect, hs[i].rect)
      merged == merge_intervals(sort_intervals(line_intervals(line_rect, hs, 1), 1, <<>>), 1, <<>>)
      covered == sum_lengths(merged)
      line_width == Max(1, line_rect[3] - line_rect[1])
      marked == [line EXCEPT !.highlighted_any = highlighted,
                             !.assigned = @ \cup {"highlighted_any"}]
      all == {"highlighted_any", "has_unhighlighted_gap", "has_unhighlighted_after",
              "highlighted_max_x"}
  IN  IF ~highlighted
      THEN [raised |-> FALSE,
            line |-> [marked EXCEPT !.has_unhighlighted_gap = FALSE,
                                    !.has_unhighlighted_after = FALSE,
                                    !.highlighted_max_x = <<>>,
                                    !.assigned = @ \cup all]]
      ELSE IF merged = <<>>
      THEN [raised |-> TRUE, line |-> marked]
      ELSE [raised |-> FALSE,
            line |-> [marked EXCEPT
                        !.highlighted_max_x = <<max_end(merged)>>,
                        !.has_unhighlighted_gap = (100 * covered < 95 * line_width),
                        !.has_unhighlighted_after =
                           (10 * (line_rect[3] - max_end(merged)) > Max(60, line_width)),
                        !.assigned = @ \cup all]]


(***************************************************************************)
(* Grouping and de-duplication (main, the fold and the emit loop)          *)
(***************************************************************************)

union_rect(a, b) == <<Min(a[1], b[1]), Min(a[2], b[2]), Max(a[3], b[3]), Max(a[4], b[4])>>

\* A faulty variant of the merge: the group's last_rect becomes the union rectangle.
merge_into_union(group, item) ==
  [group EXCEPT !.lines = @ \o item.lines,
                !.rect = union_rect(@, item.rect),
                !.last_rect = union_rect(group.rect, item.rect)]

\* A faulty variant of the merge: the candidate's lines replace the group's.
merge_into_replace(group, item) ==
  [group EXCEPT !.lines = item.lines,
                !.rect = union_rect(@, item.rect),
                !.last_rect = item.rect]

\* The merge branch of the fold: extend the lines, union the rect, and move
\* last_rect to the candidate's own rect.
merge_into(group, item) ==
  [group EXCEPT !.lines = @ \o item.lines,
                !.rect = union_rect(@, item.rect),
                !.last_rect = item.rect]

\* The rectangle a candidate is compared against: grouped[-1]["last_rect"].
compare_rect(group) == group.last_rect

\* One iteration of "for item in page_highlights" of the fold.
fold_step(grp, item, page_lines) ==
  LET n == Len(grp) IN
  IF /\ grp # <<>>
     /\ grp[n].color = item.color
     /\ should_merge_rects(compare_rect(grp[n]), item.rect, page_lines)
  THEN [grp EXCEPT ![n] = merge_into(grp[n], item)]
  ELSE Append(grp, [rect |-> item.rect, color |-> item.color, lines |-> item.lines,
                    last_rect |-> item.rect])

\* A faulty variant of the key: the page is left out.
result_key_text(output) == <<output.text>>

\* key = (output["page"], output["text"])
result_key(output) == <<output.page, output.text>>

\* seen.add(key)
remember(keys, key) == keys \cup {key}

(***************************************************************************)
(* State                                                                   *)
(***************************************************************************)

VARIABLES
  doc,              \* the opened document: its pages (read-only)
  pc,               \* the position in main
  pi,               \* the 1-based page index of the running page loop
  k,                \* the index of the running inner loop
  highlights,       \* main's highlights: {page, rect, color}
  page_highlights,  \* the running page's retained highlights
  lines,            \* the running page's Lines
  grouped,          \* the running page's groups
  results,          \* the emitted records
  seen,             \* the keys of the emitted records
  args,             \* the arguments of a call of a function checked alone
  ret               \* its return value

vars == <<doc, pc, pi, k, highlights, page_highlights, lines, grouped, results, seen,
          args, ret>>

(***************************************************************************)
(* Documents                                                               *)
(***************************************************************************)

MaxHl == 3      \* annotations on the page of a one-page document
MaxPages == 2   \* pages of a multi-page document

SeqsUpTo(S, n) == UNION {[1..m -> S] : m \in 0..n}

yellow == <<10, 10, 0>>
green == <<0, 10, 0>>
near_yellow == <<10, 9, 0>>

text_line(words, box) == [type |-> 0, text |-> words, bbox |-> box]
annot(rect, fill, stroke) == [rect |-> rect, colors |-> [fill |-> fill, stroke |-> stroke]]
drawing(rect, fill) == [rect |-> rect, fill |-> fill]

\* A three-row page with a side note, an image block and a blank line, in a
\* layout order that is not the reading order.
LayoutA ==
  << text_line(<<"2.", "Bar">>, <<0, 25, 100, 33>>),
     text_line(<<"note">>, <<104, 1, 130, 9>>),
     [type |-> 1, text |-> <<>>, bbox |-> <<0, 60, 100, 90>>],
     text_line(<<"1.", "Foo">>, <<0, 1, 100, 9>>),
     text_line(<<>>, <<0, 37, 100, 45>>),
     text_line(<<"continued">>, <<0, 13, 100, 21>>) >>

\* Highlight annotations over LayoutA: the left half and the rest of row 1
\* (3 apart), row 2, a tall left block over rows 1 and 2, row 3, and the side
\* note, whose left edge is the right edge of row 1.
HlOptions ==
  { annot(<<0, 0, 50, 10>>, yellow, <<>>),
    annot(<<53, 0, 100, 10>>, yellow, <<>>),
    annot(<<53, 0, 100, 10>>, green, <<>>),
    annot(<<0, 12, 100, 22>>, yellow, <<>>),
    annot(<<0, 12, 100, 22>>, near_yellow, <<>>),
    annot(<<0, 0, 50, 22>>, yellow, <<>>),
    annot(<<0, 24, 100, 34>>, yellow, <<>>),
    annot(<<100, 0, 130, 10>>, yellow, <<>>) }

DocsOnePage ==
  { << [annots |-> a, drawings |-> <<>>, text_lines |-> LayoutA] >> :
      a \in SeqsUpTo(HlOptions, MaxHl) }


(***************************************************************************)
(* extract_highlighted_lines.py: main                                      *)
(***************************************************************************)

\* The highlights one page contributes in the first loop of main: the
\* annotations with a fill colour, else a stroke colour; the filled drawings
\* only when the page has no annotation at all.
RECURSIVE annot_highlights(_, _, _)
annot_highlights(page_no, annots, i) ==
  IF i > Len(annots) THEN <<>>
  ELSE LET a == annots[i]
           c == IF a.colors.fill # <<>> THEN a.colors.fill ELSE a.colors.stroke
           rest == annot_highlights(page_no, annots, i + 1)
       IN  IF c # <<>> THEN <<[page |-> page_no, rect |-> a.rect, color |-> c]>> \o rest
           ELSE rest

RECURSIVE drawing_highlights(_, _, _)
drawing_highlights(page_no, drawings, i) ==
  IF i > Len(drawings) THEN <<>>
  ELSE LET d == drawings[i]
           rest == drawing_highlights(page_no, drawings, i + 1)
       IN  IF d.fill # <<>> /\ d.rect # <<>>
           THEN <<[page |-> page_no, rect |-> d.rect, color |-> d.fill]>> \o rest
           ELSE rest

page_collect(page_no, page) ==
  annot_highlights(page_no, page.annots, 1)
    \o (IF page.annots = <<>> THEN drawing_highlights(page_no, page.drawings, 1) ELSE <<>>)

\* The page's retained highlights: classified, and covering some text.
RECURSIVE retain(_, _, _, _)
retain(page_no, page, hs, i) ==
  IF i > Len(hs) THEN <<>>
  ELSE LET h == hs[i]
           label == classify_nearest_color(h.color, color_table)
           covered == extract_highlight_text(page, h.rect)
           rest == retain(page_no, page, hs, i + 1)
       IN  IF h.page # page_no \/ label = None \/ covered = <<>> THEN rest
           ELSE <<[rect |-> h.rect, color |-> label, lines |-> covered]>> \o rest

\* Where main goes once page pi is finished.
after_page == IF pi = Len(doc) THEN "print" ELSE "filter"

\* First loop, one page: collect its highlights.
Collect ==
  /\ pc = "collect"
  /\ highlights' = highlights \o page_collect(pi, doc[pi])
  /\ pi' = IF pi = Len(doc) THEN 1 ELSE pi + 1
  /\ pc' = IF pi = Len(doc) THEN "filter" ELSE "collect"
  /\ UNCHANGED <<doc, k, page_highlights, lines, grouped, results, seen, args, ret>>

\* Second loop, one page: build page_highlights; a page without any is skipped.
\* (The Python name "lines" is also bound to each highlight's text here; it is
\* rebound by extract_lines before it is read.)
FilterPage ==
  /\ pc = "filter"
  /\ LET kept == retain(pi, doc[pi], highlights, 1) IN
     /\ page_highlights' = kept
     /\ IF kept = <<>>
        THEN /\ pc' = after_page
             /\ pi' = IF pi = Len(doc) THEN pi ELSE pi + 1
        ELSE /\ pc' = "lines"
             /\ pi' = pi
  /\ UNCHANGED <<doc, k, highlights, lines, grouped, results, seen, args, ret>>

\* lines = extract_lines(page)
ExtractLines ==
  /\ pc = "lines"
  /\ lines' = extract_lines(doc[pi])
  /\ k' = 1
  /\ pc' = IF lines' = <<>> THEN "sort" ELSE "cover"
  /\ UNCHANGED <<doc, pi, highlights, page_highlights, grouped, results, seen, args, ret>>

\* One iteration of "for line in lines"; an uncaught ValueError ends the run.
CoverLine ==
  /\ pc = "cover"
  /\ LET r == cover_line(lines[k], page_highlights) IN
     /\ lines' = [lines EXCEPT ![k] = r.line]
     /\ IF r.raised
        THEN pc' = "error" /\ k' = k
        ELSE /\ k' = k + 1
             /\ pc' = IF k = Len(lines) THEN "sort" ELSE "cover"
  /\ UNCHANGED <<doc, pi, highlights, page_highlights, grouped, results, seen, args, ret>>

\* page_highlights.sort(...); grouped = []
SortHighlights ==
  /\ pc = "sort"
  /\ page_highlights' = sort_highlights(page_highlights)
  /\ grouped' = <<>>
  /\ k' = 1
  /\ pc' = "fold"
  /\ UNCHANGED <<doc, pi, highlights, lines, results, seen, args, ret>>

\* One iteration of the fold.  (In Python the group is the dict of its first
\* highlight, so a merge also rewrites that element of page_highlights; the
\* loop only reads the elements after it.)
FoldStep ==
  /\ pc = "fold"
  /\ grouped' = fold_step(grouped, page_highlights[k], lines)
  /\ k' = IF k = Len(page_highlights) THEN 1 ELSE k + 1
  /\ pc' = IF k = Len(page_highlights) THEN "emit" ELSE "fold"
  /\ UNCHANGED <<doc, pi, highlights, page_highlights, lines, results, seen, args, ret>>

\* One iteration of "for item in grouped": emit the group unless its key was
\* seen; after the last group, go on to the next page.
EmitStep ==
  /\ pc = "emit"
  /\ LET item == grouped[k]
         output == [page |-> pi, colors |-> <<item.color>>, text |-> join(item.lines)]
         key == result_key(output)
     IN  IF key \notin seen
         THEN seen' = remember(seen, key) /\ results' = Append(results, output)
         ELSE UNCHANGED <<seen, results>>
  /\ IF k = Len(grouped)
     THEN /\ pc' = after_page
          /\ pi' = IF pi = Len(doc) THEN pi ELSE pi + 1
          /\ k' = k
     ELSE /\ pc' = "emit"
          /\ pi' = pi
          /\ k' = k + 1
  /\ UNCHANGED <<doc, highlights, page_highlights, lines, grouped, args, ret>>

\* The results are printed (as JSON or as text) and main returns.
PrintResults ==
  /\ pc = "print"
  /\ pc' = "done"
  /\ UNCHANGED <<doc, pi, k, highlights, page_highlights, lines, grouped, results, seen,
                 args, ret>>

InitMain(docs) ==
  /\ doc \in docs
  /\ pc = "collect"
  /\ pi = 1
  /\ k = 1
  /\ highlights = <<>>
  /\ page_highlights = <<>>
  /\ lines = <<>>
  /\ grouped = <<>>
  /\ results = <<>>
  /\ seen = {}
  /\ args = <<>>
  /\ ret = <<>>

Init == InitMain(DocsOnePage)

Next ==
  \/ Collect
  \/ FilterPage
  \/ ExtractLines
  \/ CoverLine
  \/ SortHighlights
  \/ FoldStep
  \/ EmitStep
  \/ PrintResults

Spec == Init /\ [][Next]_vars


(***************************************************************************)
(* Multi-page documents                                                    *)
(***************************************************************************)

\* Three rows set far apart; the first two carry the same text.
LayoutB ==
  << text_line(<<"Foo">>, <<0, 25, 100, 33>>),
     text_line(<<"Bar">>, <<0, 49, 100, 57>>),
     text_line(<<"Foo">>, <<0, 1, 100, 9>>) >>

\* A numbered paragraph: "1. Foo", "continued", "2. Bar".
LayoutC ==
  << text_line(<<"continued">>, <<0, 13, 100, 21>>),
     text_line(<<"1.", "Foo">>, <<0, 1, 100, 9>>),
     text_line(<<"2.", "Bar">>, <<0, 25, 100, 33>>) >>

PageKinds ==
  { \* two yellow highlights over the two "Foo" rows (one coloured by stroke)
    [annots |-> << annot(<<0, 24, 100, 34>>, <<>>, yellow), annot(<<0, 0, 100, 10>>, yellow, <<>>) >>,
     drawings |-> << drawing(<<0, 48, 100, 58>>, yellow) >>,
     text_lines |-> LayoutB],
    \* a green and a yellow highlight over the two "Foo" rows
    [annots |-> << annot(<<0, 0, 100, 10>>, green, <<>>), annot(<<0, 24, 100, 34>>, yellow, <<>>) >>,
     drawings |-> <<>>,
     text_lines |-> LayoutB],
    \* "Bar", an annotation without colour, and a highlight over no text
    [annots |-> << annot(<<0, 48, 100, 58>>, yellow, <<>>), annot(<<0, 0, 100, 10>>, <<>>, <<>>),
                   annot(<<0, 70, 100, 80>>, yellow, <<>>) >>,
     drawings |-> <<>>,
     text_lines |-> LayoutB],
    \* no annotation: the filled drawings are the highlights
    [annots |-> <<>>,
     drawings |-> << drawing(<<0, 0, 100, 10>>, yellow), drawing(<<0, 24, 100, 34>>, <<>>),
                     drawing(<<>>, yellow) >>,
     text_lines |-> LayoutB],
    \* nothing highlighted
    [annots |-> <<>>, drawings |-> <<>>, text_lines |-> LayoutB],
    \* the numbered paragraph with its last two rows highlighted
    [annots |-> << annot(<<0, 24, 100, 34>>, yellow, <<>>), annot(<<0, 12, 100, 22>>, yellow, <<>>) >>,
     drawings |-> <<>>,
     text_lines |-> LayoutC] }

DocsPages == UNION {[1..n -> PageKinds] : n \in 1..MaxPages}

InitPages == InitMain(DocsPages)

SpecPages == InitPages /\ [][Next]_vars

(***************************************************************************)
(* should_merge_rects and classify_nearest_color, called alone             *)
(***************************************************************************)

MaxLines == 2   \* lines on the page of a should_merge_rects call

MergeXs == {0, 10, 13, 513}
MergeYs == {0, 4, 8, 10, 16, 30}

MergeRects ==
  { <<x0, y0, x1, y1>> : x0 \in MergeXs, y0 \in MergeYs, x1 \in MergeXs, y1 \in MergeYs }

WellFormed(r) == r[1] <= r[3] /\ r[2] <= r[4]

\* Row i of a page whose rows follow one another from the top.
RowTops == <<0, 10, 16, 30, 40>>

flagged_line(i, flag) ==
  [text |-> <<"w">>,
   lines |-> <<[text |-> <<"w">>, bbox |-> <<0, RowTops[i], 100, RowTops[i + 1]>>]>>,
   assigned |-> {"text", "lines", "highlighted_any", "has_unhighlighted_gap",
                 "has_unhighlighted_after", "highlighted_max_x"},
   highlighted_any |-> flag,
   has_unhighlighted_gap |-> flag,
   has_unhighlighted_after |-> flag,
   highlighted_max_x |-> IF flag THEN <<50>> ELSE <<>>]

MergeLines ==
  UNION { { [i \in 1..n |-> flagged_line(i, f[i])] : f \in [1..n -> BOOLEAN] } : n \in 0..MaxLines }

InitIdle ==
  /\ doc = <<>>
  /\ pi = 1
  /\ k = 1
  /\ highlights = <<>>
  /\ page_highlights = <<>>
  /\ lines = <<>>
  /\ grouped = <<>>
  /\ results = <<>>
  /\ seen = {}

InitMerge ==
  /\ InitIdle
  /\ pc = "call_merge"
  /\ args \in { [prev_rect |-> p, next_rect |-> n, lines |-> ls] :
                  p \in {r \in MergeRects : WellFormed(r) /\ r[1] < r[3]},
                  n \in {r \in MergeRects : WellFormed(r) /\ r[1] < r[3]},
                  ls \in MergeLines }
  /\ ret = <<>>

CallShouldMerge ==
  /\ pc = "call_merge"
  /\ ret' = <<should_merge_rects(args.prev_rect, args.next_rect, args.lines)>>
  /\ pc' = "returned"
  /\ UNCHANGED <<doc, pi, k, highlights, page_highlights, lines, grouped, results, seen, args>>

SpecMerge == InitMerge /\ [][CallShouldMerge]_vars

\* Channel values (tenths) on which the float distances of the source order
\* the palette exactly as the integer squares do.
Channels == {0, 3, 5, 7, 10}

InitColor ==
  /\ InitIdle
  /\ pc = "call_classify"
  /\ args \in { [c |-> <<r, g, b>>] : r \in Channels, g \in Channels, b \in Channels }
               \cup { [c |-> color_table[i].rgb] : i \in 1..Len(color_table) }
               \cup { [c |-> <<>>] }
  /\ ret = <<>>

CallClassify ==
  /\ pc = "call_classify"
  /\ ret' = <<classify_nearest_color(args.c, color_table)>>
  /\ pc' = "returned"
  /\ UNCHANGED <<doc, pi, k, highlights, page_highlights, lines, grouped, results, seen, args>>

SpecColor == InitColor /\ [][CallClassify]_vars


(***************************************************************************)
(* extract_comments.py                                                     *)
(***************************************************************************)

RECURSIVE min_of(_)
min_of(xs) == IF Len(xs) = 1 THEN xs[1] ELSE Min(xs[1], min_of(Tail(xs)))

RECURSIVE max_of(_)
max_of(xs) == IF Len(xs) = 1 THEN xs[1] ELSE Max(xs[1], max_of(Tail(xs)))

\* quad_rects before its sort: one bounding rectangle per slice of four
\* vertices, vertices[i : i + 4] (the last slice may be shorter).
RECURSIVE quad_boxes(_, _)
quad_boxes(vertices, i) ==
  IF i > Len(vertices) THEN <<>>
  ELSE LET quad == SubSeq(vertices, i, Min(i + 3, Len(vertices)))
           xs == [j \in 1..Len(quad) |-> quad[j][1]]
           ys == [j \in 1..Len(quad) |-> quad[j][2]]
       IN  <<(<<min_of(xs), min_of(ys), max_of(xs), max_of(ys)>>)>>
             \o quad_boxes(vertices, i + 4)

\* quad_rects(pymupdf, vertices): the boxes sorted by (y0, x0).
quad_rects(vertices) ==
  LET boxes == quad_boxes(vertices, 1)
      keyed == [i \in 1..Len(boxes) |-> [key |-> boxes[i], val |-> boxes[i]]]
      s == sort_keyed(keyed, 1, <<>>)
  IN  [i \in 1..Len(s) |-> s[i].val]

\* extract_reference(page, annot, pymupdf): the text clipped to each rectangle
\* (the quads', else the annotation's own), joined by newlines: the sequence
\* of the clipped lines.
RECURSIVE clipped_parts(_, _, _)
clipped_parts(page, rects, i) ==
  IF i > Len(rects) THEN <<>>
  ELSE clip_text(page, rects[i]) \o clipped_parts(page, rects, i + 1)

extract_reference(page, a) ==
  LET quads == quad_rects(a.vertices)
      rects == IF quads = <<>> THEN <<a.rect>> ELSE quads
  IN  clipped_parts(page, rects, 1)

\* info.get("content") or "": info is <<>> without the key, else <<content>>.
content_of(a) == IF a.info = <<>> THEN <<>> ELSE a.info[1]

\* The record appended for a content-bearing annotation.
comment_record(page_no, page, a) ==
  [page |-> page_no, reference |-> extract_reference(page, a), text |-> content_of(a)]

\* A faulty variant: only an annotation without the "content" key is skipped.
comment_skipped_missing(a) == a.info = <<>>

\* "if not content: continue"
comment_skipped(a) == content_of(a) = <<>>

note(content, rect, vertices) == [info |-> content, rect |-> rect, vertices |-> vertices]

\* Two quads given bottom row first, over "continued" and "1. Foo".
TwoQuads ==
  << <<0, 12>>, <<100, 12>>, <<0, 22>>, <<100, 22>>,
     <<0, 0>>, <<100, 0>>, <<0, 10>>, <<100, 10>> >>

NoteFirst == note(<< <<"first">> >>, <<0, 0, 100, 22>>, TwoQuads)
NoteEmpty == note(<< <<>> >>, <<0, 0, 100, 10>>, <<>>)
NoteNoContent == note(<<>>, <<0, 12, 100, 22>>, <<>>)
NoteSecond == note(<< <<"second">> >>, <<0, 24, 100, 34>>, <<>>)

CommentPageKinds ==
  { [annots |-> a, drawings |-> <<>>, text_lines |-> LayoutC] :
      a \in { <<NoteFirst, NoteEmpty, NoteSecond>>,
              <<>>,
              <<NoteNoContent, NoteSecond, NoteSecond>>,
              <<NoteSecond, NoteFirst>>,
              <<NoteEmpty>> } }

DocsComments == UNION {[1..n -> CommentPageKinds] : n \in 1..MaxPages}

InitComments ==
  /\ doc \in DocsComments
  /\ pc = "c_page"
  /\ pi = 1
  /\ k = 1
  /\ highlights = <<>>
  /\ page_highlights = <<>>
  /\ lines = <<>>
  /\ grouped = <<>>
  /\ results = <<>>
  /\ seen = {}
  /\ args = <<>>
  /\ ret = <<>>

c_after_page == IF pi = Len(doc) THEN "c_print" ELSE "c_page"

\* "for pi, page in enumerate(doc, start=1)": annots = list(page.annots() or [])
CommentsPage ==
  /\ pc = "c_page"
  /\ IF doc[pi].annots = <<>>
     THEN /\ pc' = c_after_page
          /\ pi' = IF pi = Len(doc) THEN pi ELSE pi + 1
     ELSE /\ pc' = "c_annot"
          /\ pi' = pi
  /\ k' = 1
  /\ UNCHANGED <<doc, highlights, page_highlights, lines, grouped, results, seen, args, ret>>

\* One iteration of "for annot in annots".
CommentsAnnot ==
  /\ pc = "c_annot"
  /\ LET a == doc[pi].annots[k] IN
     results' = IF comment_skipped(a) THEN results
                ELSE Append(results, comment_record(pi, doc[pi], a))
  /\ IF k = Len(doc[pi].annots)
     THEN /\ pc' = c_after_page
          /\ pi' = IF pi = Len(doc) THEN pi ELSE pi + 1
          /\ k' = k
     ELSE /\ pc' = "c_annot"
          /\ pi' = pi
          /\ k' = k + 1
  /\ UNCHANGED <<doc, highlights, page_highlights, lines, grouped, seen, args, ret>>

\* The results are printed (as JSON or as text) and main returns.
CommentsPrint ==
  /\ pc = "c_print"
  /\ pc' = "done"
  /\ UNCHANGED <<doc, pi, k, highlights, page_highlights, lines, grouped, results, seen,
                 args, ret>>

NextComments == CommentsPage \/ CommentsAnnot \/ CommentsPrint

SpecComments == InitComments /\ [][NextComments]_vars


(***************************************************************************)
(* Properties of the grouping fold                                         *)
(***************************************************************************)

IsPrefix(a, b) == Len(a) <= Len(b) /\ SubSeq(b, 1, Len(a)) = a

\* The number of highlights the fold has consumed.
Folded == IF pc = "fold" THEN k - 1 ELSE Len(page_highlights)

\* C1: at every step of the fold the candidate page_highlights[k] joins the
\* open (last) group if and only if it has the colour of the highlight before
\* it and should_merge_rects accepts (the rect of the highlight before it, its
\* own rect); that previous rect, never the group's union, is the group's
\* last_rect.  On a merge only the last group changes; otherwise the groups
\* stay as they are and the candidate opens a new one.
C1_CompareAgainstLast ==
  [][pc = "fold" =>
       LET item == page_highlights[k]
           n == Len(grouped)
           expected == /\ k > 1
                       /\ page_highlights[k - 1].color = item.color
                       /\ should_merge_rects(page_highlights[k - 1].rect, item.rect, lines)
       IN  /\ (Len(grouped') = n) <=> expected
           /\ expected => /\ n >= 1
                          /\ SubSeq(grouped', 1, n - 1) = SubSeq(grouped, 1, n - 1)
                          /\ grouped'[n].color = grouped[n].color
           /\ ~expected => /\ Len(grouped') = n + 1
                           /\ SubSeq(grouped', 1, n) = grouped
                           /\ grouped'[n + 1].rect = item.rect
                           /\ grouped'[n + 1].color = item.color
           /\ grouped'[Len(grouped')].last_rect = item.rect]_vars

\* A finished fold of a three-rectangle chain of one colour in one group,
\* whose third rectangle the union of the first two would have rejected.
C1_Witness ==
  /\ pc = "emit"
  /\ Len(page_highlights) = 3
  /\ Len(grouped) = 1
  /\ grouped[1].last_rect = page_highlights[3].rect
  /\ grouped[1].last_rect # grouped[1].rect
  /\ ~should_merge_rects(union_rect(page_highlights[1].rect, page_highlights[2].rect),
                         page_highlights[3].rect, lines)

RECURSIVE bounding(_)
bounding(rects) ==
  IF Len(rects) = 1 THEN rects[1] ELSE union_rect(rects[1], bounding(Tail(rects)))

\* Whether the groups are the runs of the first n sorted highlights that end
\* at ends[1] < ends[2] < ... = n.
RunsMatch(ends, n) ==
  /\ \A g \in 1..Len(grouped) :
       LET first == IF g = 1 THEN 1 ELSE ends[g - 1] + 1
           members == SubSeq(page_highlights, first, ends[g])
       IN  /\ first <= ends[g]
           /\ \A m \in 1..Len(members) : members[m].color = grouped[g].color
           /\ grouped[g].rect = bounding([m \in 1..Len(members) |-> members[m].rect])
           /\ grouped[g].lines = join([m \in 1..Len(members) |-> members[m].lines])
  /\ (grouped # <<>>) => ends[Len(grouped)] = n

\* The number of elements of seq equal to x.
Count(seq, x) == Cardinality({i \in 1..Len(seq) : seq[i] = x})

\* C10: during and after the fold, page_highlights is the page's retained
\* highlights in (top, left) order, and the groups are contiguous runs of its
\* folded prefix: each highlight in exactly one group, each group of one
\* colour, its rect the bounding rectangle of its members and its lines the
\* members' lines in order.
C10_GroupsPartition ==
  pc \in {"fold", "emit"} =>
    /\ \A i \in 1..(Len(page_highlights) - 1) :
         key_le(page_highlights[i].rect, page_highlights[i + 1].rect)
    /\ LET kept == retain(pi, doc[pi], highlights, 1) IN
       /\ Len(kept) = Len(page_highlights)
       /\ \A i \in 1..Len(kept) : Count(kept, kept[i]) = Count(page_highlights, kept[i])
    /\ (Folded = 0) => grouped = <<>>
    /\ (Folded > 0) =>
         /\ grouped # <<>>
         /\ \E ends \in [1..Len(grouped) -> 1..Folded] : RunsMatch(ends, Folded)
    /\ join([g \in 1..Len(grouped) |-> grouped[g].lines])
         = join([i \in 1..Folded |-> page_highlights[i].lines])

\* A finished fold that reordered its input and made two groups of three
\* highlights.
C10_Witness ==
  /\ pc = "emit"
  /\ Len(page_highlights) = 3
  /\ Len(grouped) = 2
  /\ page_highlights # retain(pi, doc[pi], highlights, 1)
  /\ Len(grouped[1].lines) >= 2

(***************************************************************************)
(* Properties of the emitted results                                       *)
(***************************************************************************)

NoDuplicateKeys(rs) ==
  \A i, j \in 1..Len(rs) : (rs[i].page = rs[j].page /\ rs[i].text = rs[j].text) => i = j

\* C4: no two emitted records share (page, text) (no record carries a
\* comment); records are never removed or reordered; and once a group has been
\* processed exactly one record carries its (page, text), which is a new last
\* record of the group's own colour when none carried it before.
C4_Deduplicated ==
  [][/\ NoDuplicateKeys(results')
     /\ IsPrefix(results, results')
     /\ pc = "emit" =>
          LET item == grouped[k]
              text == join(item.lines)
              same(rs) == {j \in 1..Len(rs) : rs[j].page = pi /\ rs[j].text = text}
          IN  /\ Cardinality(same(results')) = 1
              /\ (same(results) # {}) => results' = results
              /\ (same(results) = {}) =>
                   results' = Append(results, [page |-> pi, colors |-> <<item.color>>,
                                               text |-> text])]_vars

\* The second page of a document is done; it had two groups of the same text,
\* which the first page had emitted too: one record for each page.
C4_Witness ==
  /\ pc = "print"
  /\ pi = 2
  /\ Len(grouped) = 2
  /\ join(grouped[1].lines) = join(grouped[2].lines)
  /\ Cardinality({j \in 1..Len(results) : results[j].text = join(grouped[1].lines)}) = 2
  /\ Cardinality({j \in 1..Len(results) :
                    results[j].page = 2 /\ results[j].text = join(grouped[1].lines)}) = 1


(***************************************************************************)
(* Properties of should_merge_rects                                        *)
(***************************************************************************)

Height(r) == r[4] - r[2]

\* The two rectangles share a vertical coordinate.
VerticallyOverlap(p, n) == Max(p[2], n[2]) <= Min(p[4], n[4])

\* "Same line": vertical overlap, or tops at most half of prevHeight apart.
OnSameLine(p, n) ==
  VerticallyOverlap(p, n) \/ 2 * Abs(n[2] - p[2]) <= Max(1, Height(p))

GapTooTall(p, n) == 10 * (n[2] - p[4]) > Max(40, 8 * Max(1, Height(p)))

\* C3 as stated: off the same line, should_merge_rects rejects when the
\* vertical gap is too tall, rejects when a line lying strictly between the
\* two tops has has_unhighlighted_after set, and accepts in every other case;
\* a line that is not strictly between the tops never causes a rejection.
\* ("Strictly between" is read by the line's top, the reading that counts the
\* most lines.)
C3_StrictlyBetween ==
  (pc = "returned" /\ ~OnSameLine(args.prev_rect, args.next_rect)) =>
    ret[1] = (/\ ~GapTooTall(args.prev_rect, args.next_rect)
              /\ ~\E i \in 1..Len(args.lines) :
                    /\ args.lines[i].has_unhighlighted_after
                    /\ args.prev_rect[2] < bbox_of(args.lines[i])[2]
                    /\ bbox_of(args.lines[i])[2] < args.next_rect[2])

\* C3, amended: off the same line, should_merge_rects rejects when the
\* vertical gap is too tall, rejects when a line whose vertical extent
\* [y0, y1] meets the closed band [prev.top, next.top] has
\* has_unhighlighted_after set, and accepts in every other case.
C3_BandOverlap ==
  (pc = "returned" /\ ~OnSameLine(args.prev_rect, args.next_rect)) =>
    ret[1] = (/\ ~GapTooTall(args.prev_rect, args.next_rect)
              /\ ~\E i \in 1..Len(args.lines) :
                    /\ args.lines[i].has_unhighlighted_after
                    /\ bbox_of(args.lines[i])[2] <= args.next_rect[2]
                    /\ bbox_of(args.lines[i])[4] >= args.prev_rect[2])

\* A cross-line pair within the gap tolerance is rejected because of the line
\* prev itself covers, the only line with the flag set.
C3_Witness ==
  /\ pc = "returned"
  /\ ~OnSameLine(args.prev_rect, args.next_rect)
  /\ ~GapTooTall(args.prev_rect, args.next_rect)
  /\ Len(args.lines) = 2
  /\ args.lines[1].has_unhighlighted_after
  /\ ~args.lines[2].has_unhighlighted_after
  /\ bbox_of(args.lines[1])[2] = args.prev_rect[2]
  /\ bbox_of(args.lines[1])[4] = args.prev_rect[4]
  /\ ret = <<FALSE>>

(***************************************************************************)
(* Properties of classify_nearest_color                                    *)
(***************************************************************************)

\* C6: for a colour that is not None the result is the label of the first
\* palette entry, in declaration order, at the minimal distance from the
\* colour; so the reference colour of an entry gets that entry's label.
C6_NearestFirst ==
  (pc = "returned" /\ args.c # <<>>) =>
    /\ \E i \in 1..Len(color_table) :
         /\ ret[1] = color_table[i].name
         /\ \A j \in 1..Len(color_table) : dist(args.c, color_table[i].rgb)
                                             <= dist(args.c, color_table[j].rgb)
         /\ \A j \in 1..(i - 1) : dist(args.c, color_table[j].rgb)
                                    > dist(args.c, color_table[i].rgb)
    /\ \A i \in 1..Len(color_table) :
         (args.c = color_table[i].rgb) => ret[1] = color_table[i].name

\* A colour as far from green as from blue, and nearer to no other entry, is
\* classified green.
C6_Witness ==
  /\ pc = "returned"
  /\ args.c # <<>>
  /\ dist(args.c, color_table[2].rgb) = dist(args.c, color_table[3].rgb)
  /\ \A j \in 1..Len(color_table) :
       dist(args.c, color_table[2].rgb) <= dist(args.c, color_table[j].rgb)
  /\ dist(args.c, color_table[1].rgb) > dist(args.c, color_table[2].rgb)
  /\ ret = <<"green">>


(***************************************************************************)
(* Properties of the comment-reference pipeline                            *)
(***************************************************************************)

\* The annotations extract_comments has gone through, as <<page, index>>.
Processed ==
  { q \in UNION { {<<p, i>> : i \in 1..Len(doc[p].annots)} : p \in 1..Len(doc) } :
      LET p == q[1]
          i == q[2] IN
      \/ pc \in {"c_print", "done"}
      \/ p < pi
      \/ (pc = "c_annot" /\ p = pi /\ i < k) }

ContentBearing == { q \in Processed : content_of(doc[q[1]].annots[q[2]]) # <<>> }

Before(q, r) == q[1] < r[1] \/ (q[1] = r[1] /\ q[2] < r[2])

\* The place of q among the content-bearing annotations, in encounter order.
Rank(q) == Cardinality({r \in ContentBearing : Before(r, q)}) + 1

\* C7: the records are, in encounter order, exactly the annotations gone
\* through whose content is not empty (none for a missing or empty content),
\* each with the 1-based index of its page and its content unchanged.
C7_OneRecordPerComment ==
  (pc \in {"c_page", "c_annot", "c_print", "done"}) =>
    /\ Len(results) = Cardinality(ContentBearing)
    /\ \A q \in ContentBearing :
         /\ results[Rank(q)].page = q[1]
         /\ results[Rank(q)].text = content_of(doc[q[1]].annots[q[2]])

\* A finished run over two pages that skipped an annotation with an empty
\* content and one without content, and kept a repeated content twice.
C7_Witness ==
  /\ pc = "done"
  /\ Len(doc) = 2
  /\ \E i \in 1..Len(doc[1].annots) : doc[1].annots[i].info = << <<>> >>
  /\ \E i \in 1..Len(doc[2].annots) : doc[2].annots[i].info = <<>>
  /\ Len(results) = 4
  /\ results[3].page = 2
  /\ results[3].text = results[4].text

(***************************************************************************)
(* Properties of the per-line coverage                                     *)
(***************************************************************************)

\* The positions of main at which lines and page_highlights are those of the
\* same page and the coverage loop has started.
CoverageDone == {"cover", "error", "sort", "fold", "emit"}

Intersecting(line) ==
  {i \in 1..Len(page_highlights) : intersects(bbox_of(line), page_highlights[i].rect)}

\* The unit cells [x, x + 1] of the line under some intersecting highlight.
CoveredCells(line) ==
  {x \in bbox_of(line)[1]..(bbox_of(line)[3] - 1) :
     \E i \in Intersecting(line) :
       page_highlights[i].rect[1] <= x /\ x + 1 <= page_highlights[i].rect[3]}

Width(line) == Max(1, bbox_of(line)[3] - bbox_of(line)[1])

\* The right ends of the clipped overlaps of positive length.
ClippedEnds(line) ==
  {Min(bbox_of(line)[3], page_highlights[i].rect[3]) :
     i \in {j \in Intersecting(line) :
              Min(bbox_of(line)[3], page_highlights[j].rect[3])
                > Max(bbox_of(line)[1], page_highlights[j].rect[1])}}

\* C5: once the coverage loop has reached a line, a line that no highlight
\* intersects has highlighted_any = false, both flags false and
\* highlighted_max_x None; a line that some highlight intersects has
\* has_unhighlighted_gap = (covered length / max(1, width) < 0.95),
\* highlighted_max_x at the rightmost covered x and has_unhighlighted_after =
\* (line.x1 - highlighted_max_x > max(6, 10% of width)).
C5_CoverageFlags ==
  \A n \in 1..Len(lines) :
    LET line == lines[n] IN
    (pc \in CoverageDone /\ "highlighted_any" \in line.assigned) =>
      /\ line.highlighted_any = (Intersecting(line) # {})
      /\ {"has_unhighlighted_gap", "has_unhighlighted_after", "highlighted_max_x"}
           \subseteq line.assigned
      /\ (Intersecting(line) = {}) =>
           /\ ~line.has_unhighlighted_gap
           /\ ~line.has_unhighlighted_after
           /\ line.highlighted_max_x = <<>>
      /\ (Intersecting(line) # {}) =>
           /\ line.has_unhighlighted_gap
                = (100 * Cardinality(CoveredCells(line)) < 95 * Width(line))
           /\ \A e \in ClippedEnds(line) :
                (\A f \in ClippedEnds(line) : f <= e) =>
                  /\ line.highlighted_max_x = <<e>>
                  /\ line.has_unhighlighted_after
                       = (10 * (bbox_of(line)[3] - e) > Max(60, Width(line)))

\* C9: the coverage loop never fails, and a line it marks highlighted_any has
\* a highlighted_max_x within [line.x0, line.x1] and a covered length between
\* 0 and max(1, width).
C9_CoverageNeverFails ==
  /\ pc # "error"
  /\ \A n \in 1..Len(lines) :
       LET line == lines[n] IN
       (pc \in CoverageDone /\ "highlighted_any" \in line.assigned
          /\ line.highlighted_any) =>
         /\ "highlighted_max_x" \in line.assigned
         /\ Len(line.highlighted_max_x) = 1
         /\ bbox_of(line)[1] <= line.highlighted_max_x[1]
         /\ line.highlighted_max_x[1] <= bbox_of(line)[3]
         /\ Cardinality(CoveredCells(line)) <= Width(line)

(***************************************************************************)
(* Comment clustering                                                      *)
(***************************************************************************)

\* "One or more digits, a literal dot, ...": the numbered first words of the
\* layouts.
is_numbered(text) == text # <<>> /\ text[1] \in {"1.", "2."}
num_of(text) == IF text[1] = "1." THEN "1" ELSE "2"

\* The Comment Clusterer (spec 4.4): a numbered line opens a Comment, flushing
\* the open one; any other line joins the open Comment ("open" is <<>> or the
\* one open Comment), or is dropped when none is open; the last one is flushed
\* at the end.
RECURSIVE cluster_comments(_, _, _, _)
cluster_comments(ls, i, open, done) ==
  IF i > Len(ls) THEN done \o open
  ELSE IF is_numbered(ls[i].text)
       THEN cluster_comments(ls, i + 1,
              <<[num |-> num_of(ls[i].text), text |-> ls[i].text, lines |-> ls[i].lines]>>,
              done \o open)
  ELSE IF open = <<>> THEN cluster_comments(ls, i + 1, open, done)
  ELSE cluster_comments(ls, i + 1,
         <<[open[1] EXCEPT !.text = @ \o ls[i].text, !.lines = @ \o ls[i].lines]>>, done)

\* C8: the records main holds for the page's lines are the enumerated
\* Comments of the page: one per numbered line, with the lines that follow it
\* joined to it ("1. Foo", "continued", "2. Bar" give "1. Foo continued" and
\* "2. Bar").
C8_CommentsClustered ==
  (pc \in {"cover", "sort", "fold", "emit"}
     /\ \E i \in 1..Len(lines) : is_numbered(lines[i].text)) =>
    LET comments == cluster_comments(lines, 1, <<>>, <<>>) IN
    /\ Len(lines) = Len(comments)
    /\ \A i \in 1..Len(lines) :
         /\ lines[i].text = comments[i].text
         /\ lines[i].lines = comments[i].lines

====
